---------------------------- MODULE Spec2Model ----------------------------
(***************************************************************************)
(* A model of the receptor node: the websocket backend session             *)
(* (pkg/backends/websockets.go), the websocket listener's Start, the       *)
(* node's main function and nodeCfg.Init (cmd/receptor main package), the  *)
(* configuration stanzas of the websocket backends and the Unix-socket     *)
(* proxies (package services).                                             *)
(*                                                                         *)
(* The module holds six sub-systems that share no state.  Each has its     *)
(* own specification, in which the other sub-systems sit idle:             *)
(*   SessionSpec   one WebsocketSession, its recvChannelizer and callers   *)
(*   ListenerSpec  WebsocketListener.Start and the null backend            *)
(*   MainSpec      func main: start-up, grace window, exit code            *)
(*   CfgSpec       nodeCfg.Init on bounded inputs                          *)
(*   StanzaSpec    Prepare, Run, PreReload, Reload and setup of a stanza   *)
(*   ProxySpec     UnixProxyServiceInbound and UnixProxyServiceOutbound    *)
(***************************************************************************)
EXTENDS Integers, Sequences, FiniteSets, TLC

VARIABLES
    \* ---- WebsocketSession (websockets.go 169-238) ----
    conn,             \* state of ns.conn: "open", "closed" (local Close), "failed"
    wire,             \* number of frames the peer has written so far
    connBuf,          \* frames that arrived on the connection and are not read yet
    readLog,          \* history: frames ReadMessage has returned, in order
    chanPc,           \* recvChannelizer: "read", "send" (blocked on recvChan), "done"
    held,             \* the recvResult the channelizer is sending
    delivered,        \* history: payloads returned by Recv with a nil error
    lastRecv,         \* result of the last Recv: "none", "data", "timeout", "error"
    lastRecvPostClose,\* the last Recv was called after a Close had returned
    lastSend,         \* result of the last Send: "none", "ok", "error"
    lastSendPostClose,\* the last Send was called after a Close had returned
    timedOutPending,  \* history: a Recv timed out while a frame was undelivered
    nsCloseChan,      \* the field ns.closeChan: "nil" or "chan"
    closeChanCloser,  \* the sync.Once: TRUE once its function has run
    closeChanCloses,  \* number of close() executed on the shared close channel
    closePc,          \* each Close caller: "idle", "check", "do", "conn"
    nCloseCalls,      \* number of Close calls started
    closeReturned,    \* some Close call has returned
    \* ---- WebsocketListener.Start (websockets.go 123-167), null backend ----
    startPc,          \* Start: "init", "started", "failed" (net.Listen failed)
    ctxCancelled,     \* the context given to Start is cancelled
    li,               \* b.li: "nil", "open", "closed"
    server,           \* b.server: "unset", "set", "closed" (set and Close called)
    servePc,          \* serving goroutine: "none", "spawned", "assigned", "serving", "returned"
    wgCount,          \* the wait group's counter, as far as Start changes it
    cancelPc,         \* cancellation goroutine: "none", "waiting", "done", "panic"
    req,              \* each inbound request: "none", "handling", "cut", "sending", "done", "failed"
    upgraded,         \* history: requests whose Upgrade returned no error
    received,         \* history: sessions received from sessChan, in order
    sessChanClosed,   \* sessChan has been closed
    sessConnClosed,   \* sessions whose connection has been closed
    inFlightAtCancel, \* history: sessions a handler was sending when the context was cancelled
    nullStarted,      \* nullBackendCfg.Start has returned its channel
    nullChanClosed,   \* the null backend's channel has been closed
    \* ---- func main (main package, 92-171) ----
    mainPc,           \* "parse", "reload", "spawn", "enter", "select", "wait", "exited"
    osArgs,           \* os.Args[1:]
    exitCode,         \* the process's exit code; -1 while it runs
    exitMsg,          \* why it exited: "none", "startup", "exclusive", "reload",
                      \*   "allfailed", "nothing", "clean"
    reloadInit,       \* controlsvc.InitReload: "none", "ok", "err"
    backendCount,     \* netceptor.MainInstance.BackendCount()
    backendsRunning,  \* backends the backend wait group still waits for
    waitPc,           \* the goroutine of lines 150-153: "none", "waiting", "closed"
    timer,            \* the time.After(100ms) timer: "off", "armed", "fired"
    selected,         \* the case the select of line 156 woke on: "none", "done", "timeout"
    initComplete,     \* "Initialization complete" has been logged
    netDone,          \* NetceptorDone() has fired
    doneInGrace,      \* history: done was closed before the timer fired
    cancelledWhileUp, \* history: NetceptorDone fired while every backend was running
    \* ---- nodeCfg.Init (main package, 28-63) ----
    cfgID,            \* cfg.ID as configured
    cfgAllowedPeers,  \* cfg.AllowedPeers as configured
    initPc,           \* "ready", "done", "ran"
    hostName,         \* what os.Hostname returned, when Init asked
    initErr,          \* Init's result: "none" or the error
    netceptorMade,    \* netceptor.MainInstance is set
    ncID,             \* netceptor.MainInstance: its node ID
    ncAllowedPeers,   \* netceptor.MainInstance: its allowed peers
    workceptorMade,   \* workceptor.MainInstance is set
    controlsvcMade,   \* controlsvc.MainInstance is set
    \* ---- backend stanzas (websockets.go 244-457, main package 71-90) ----
    stKind,           \* "ws-listener", "ws-peer", "local-only", "WSListen", "WSDial"
    stCfg,            \* the stanza's fields, as parsed
    stPc,             \* "parsed", "prepared", "ran", "reparsed", "prereloaded",
                      \*   "reloaded", "failed", "reloadfailed"
    prepLog,          \* history: the Prepare and PreReload calls and their results
    runLog,           \* history: the Run, Reload and setup calls and their results
    added,            \* the backends AddBackend has accepted, in order
    dialed,           \* history: added dialers whose dial function has run
    dialPanic,        \* a dial function indexed past the parts of its header
    \* ---- Unix-socket proxies (package services, 473-529) ----
    pxKind,           \* "inbound" or "outbound"
    pxPc,             \* "start", "locked", "cleared", "accept", "dial", "ended"
    pxEnd,            \* why the proxy returned: "none", "lock", "clear", "listen", "accept"
    pxConns           \* each accepted connection: "accepted", "bridged", "dropped", "closed"

sessVars == <<conn, wire, connBuf, readLog, chanPc, held, delivered, lastRecv,
              lastRecvPostClose, lastSend, lastSendPostClose, timedOutPending,
              nsCloseChan, closeChanCloser, closeChanCloses, closePc,
              nCloseCalls, closeReturned>>

lisVars == <<startPc, ctxCancelled, li, server, servePc, wgCount, cancelPc, req,
             upgraded, received, sessChanClosed, sessConnClosed,
             inFlightAtCancel, nullStarted, nullChanClosed>>

mainVars == <<mainPc, osArgs, exitCode, exitMsg, reloadInit, backendCount,
              backendsRunning, waitPc, timer, selected, initComplete, netDone,
              doneInGrace, cancelledWhileUp>>

cfgVars == <<cfgID, cfgAllowedPeers, initPc, hostName, initErr, netceptorMade, ncID,
             ncAllowedPeers, workceptorMade, controlsvcMade>>

stanzaVars == <<stKind, stCfg, stPc, prepLog, runLog, added, dialed, dialPanic>>

proxyVars == <<pxKind, pxPc, pxEnd, pxConns>>

vars == <<sessVars, lisVars, mainVars, cfgVars, stanzaVars, proxyVars>>

-----------------------------------------------------------------------------
(* Bounds *)

MaxFrames == 3
MaxCloses == 2
NumClosers == 2
MaxRequests == 2
MaxBackends == 2
MaxArgs == 2
MaxUpper == 2
MaxConns == 3

Closers == 1..NumClosers
Requests == 1..MaxRequests

-----------------------------------------------------------------------------
(* WebsocketSession *)

NoResult == [data |-> 0, err |-> FALSE]

\* The frames the peer writes are numbered in the order it writes them.
WireSeq(n) == [i \in 1..n |-> i]

\* newWebsocketSession: a dialer passes its close channel, a listener nil;
\* the receive goroutine is started at once.
newWebsocketSession(closeChan) ==
    /\ conn = "open"
    /\ wire = 0
    /\ connBuf = <<>>
    /\ readLog = <<>>
    /\ chanPc = "read"
    /\ held = NoResult
    /\ delivered = <<>>
    /\ lastRecv = "none"
    /\ lastRecvPostClose = FALSE
    /\ lastSend = "none"
    /\ lastSendPostClose = FALSE
    /\ timedOutPending = FALSE
    /\ nsCloseChan = closeChan
    /\ closeChanCloser = FALSE
    /\ closeChanCloses = 0
    /\ closePc = [c \in Closers |-> "idle"]
    /\ nCloseCalls = 0
    /\ closeReturned = FALSE

SessInit == \E closeChan \in {"nil", "chan"} : newWebsocketSession(closeChan)

\* The peer writes one more frame; it arrives on the connection.
FrameArrives ==
    /\ conn = "open"
    /\ wire < MaxFrames
    /\ wire' = wire + 1
    /\ connBuf' = Append(connBuf, wire + 1)
    /\ UNCHANGED <<conn, readLog, chanPc, held, delivered, lastRecv,
                   lastRecvPostClose, lastSend, lastSendPostClose,
                   timedOutPending, nsCloseChan, closeChanCloser,
                   closeChanCloses, closePc, nCloseCalls, closeReturned>>
    /\ UNCHANGED <<lisVars, mainVars, cfgVars, stanzaVars, proxyVars>>

\* The connection fails or the peer closes it.  Frames that arrived before
\* the failure may still be readable or may be lost with it.
ConnFails ==
    /\ conn = "open"
    /\ conn' = "failed"
    /\ connBuf' \in {connBuf, <<>>}
    /\ UNCHANGED <<wire, readLog, chanPc, held, delivered, lastRecv,
                   lastRecvPostClose, lastSend, lastSendPostClose,
                   timedOutPending, nsCloseChan, closeChanCloser,
                   closeChanCloses, closePc, nCloseCalls, closeReturned>>
    /\ UNCHANGED <<lisVars, mainVars, cfgVars, stanzaVars, proxyVars>>

\* recvChannelizer, line 197: ns.conn.ReadMessage().  It blocks while the
\* connection is open and nothing has arrived; on a closed or failed
\* connection it returns an error.
ChannelizerRead ==
    /\ chanPc = "read"
    /\ \/ /\ conn # "closed"
          /\ connBuf # <<>>
          /\ held' = [data |-> Head(connBuf), err |-> FALSE]
          /\ readLog' = Append(readLog, Head(connBuf))
          /\ connBuf' = Tail(connBuf)
       \/ /\ conn = "closed" \/ (conn = "failed" /\ connBuf = <<>>)
          /\ held' = [data |-> 0, err |-> TRUE]
          /\ UNCHANGED <<readLog, connBuf>>
    /\ chanPc' = "send"
    /\ UNCHANGED <<conn, wire, delivered, lastRecv, lastRecvPostClose, lastSend,
                   lastSendPostClose, timedOutPending, nsCloseChan,
                   closeChanCloser, closeChanCloses, closePc, nCloseCalls,
                   closeReturned>>
    /\ UNCHANGED <<lisVars, mainVars, cfgVars, stanzaVars, proxyVars>>

\* A frame has been read from the connection or has arrived on it, and no
\* Recv has returned it yet.
FramePending == (chanPc = "send" /\ ~held.err) \/ connBuf # <<>>

\* Recv, lines 221-222, together with the channelizer's send of line 198 (the
\* channel is unbuffered: send and receive are one step) and its test of
\* lines 202-204.
RecvValue ==
    /\ chanPc = "send"
    /\ IF held.err
         THEN /\ lastRecv' = "error"
              /\ chanPc' = "done"
              /\ UNCHANGED delivered
         ELSE /\ lastRecv' = "data"
              /\ chanPc' = "read"
              /\ delivered' = Append(delivered, held.data)
    /\ held' = NoResult
    /\ lastRecvPostClose' = closeReturned
    /\ UNCHANGED <<conn, wire, connBuf, readLog, lastSend, lastSendPostClose,
                   timedOutPending, nsCloseChan, closeChanCloser,
                   closeChanCloses, closePc, nCloseCalls, closeReturned>>
    /\ UNCHANGED <<lisVars, mainVars, cfgVars, stanzaVars, proxyVars>>

\* A variant of RecvTimeout that takes the frame the channelizer offers and
\* drops it.
RecvTimeoutConsuming ==
    /\ lastRecv' = "timeout"
    /\ lastRecvPostClose' = closeReturned
    /\ timedOutPending' = (timedOutPending \/ FramePending)
    /\ IF chanPc = "send" /\ ~held.err
         THEN chanPc' = "read" /\ held' = NoResult
         ELSE UNCHANGED <<chanPc, held>>
    /\ UNCHANGED <<conn, wire, connBuf, readLog, delivered, lastSend,
                   lastSendPostClose, nsCloseChan, closeChanCloser,
                   closeChanCloses, closePc, nCloseCalls, closeReturned>>
    /\ UNCHANGED <<lisVars, mainVars, cfgVars, stanzaVars, proxyVars>>

\* Recv, lines 223-224: the timer case of the select.  When both cases are
\* ready the select may take either, so the timeout is possible in any state.
RecvTimeout ==
    /\ lastRecv' = "timeout"
    /\ lastRecvPostClose' = closeReturned
    /\ timedOutPending' = (timedOutPending \/ FramePending)
    /\ UNCHANGED <<conn, wire, connBuf, readLog, chanPc, held, delivered,
                   lastSend, lastSendPostClose, nsCloseChan, closeChanCloser,
                   closeChanCloses, closePc, nCloseCalls, closeReturned>>
    /\ UNCHANGED <<lisVars, mainVars, cfgVars, stanzaVars, proxyVars>>

\* Send, lines 209-216: WriteMessage fails on a closed or failed connection.
Send ==
    /\ lastSend' = IF conn = "open" THEN "ok" ELSE "error"
    /\ lastSendPostClose' = closeReturned
    /\ UNCHANGED <<conn, wire, connBuf, readLog, chanPc, held, delivered,
                   lastRecv, lastRecvPostClose, timedOutPending, nsCloseChan,
                   closeChanCloser, closeChanCloses, closePc, nCloseCalls,
                   closeReturned>>
    /\ UNCHANGED <<lisVars, mainVars, cfgVars, stanzaVars, proxyVars>>

\* Close is called (by the owner or by a concurrent caller).
CloseCall(c) ==
    /\ closePc[c] = "idle"
    /\ nCloseCalls < MaxCloses
    /\ nCloseCalls' = nCloseCalls + 1
    /\ closePc' = [closePc EXCEPT ![c] = "check"]
    /\ UNCHANGED <<conn, wire, connBuf, readLog, chanPc, held, delivered,
                   lastRecv, lastRecvPostClose, lastSend, lastSendPostClose,
                   timedOutPending, nsCloseChan, closeChanCloser,
                   closeChanCloses, closeReturned>>
    /\ UNCHANGED <<lisVars, mainVars, cfgVars, stanzaVars, proxyVars>>

\* Close, line 230: if ns.closeChan != nil.
CloseCheck(c) ==
    /\ closePc[c] = "check"
    /\ closePc' = [closePc EXCEPT ![c] = IF nsCloseChan # "nil" THEN "do" ELSE "conn"]
    /\ UNCHANGED <<conn, wire, connBuf, readLog, chanPc, held, delivered,
                   lastRecv, lastRecvPostClose, lastSend, lastSendPostClose,
                   timedOutPending, nsCloseChan, closeChanCloser,
                   closeChanCloses, nCloseCalls, closeReturned>>
    /\ UNCHANGED <<lisVars, mainVars, cfgVars, stanzaVars, proxyVars>>

\* A variant of Close without the sync.Once: every caller that found the
\* close channel set closes it.
CloseDoEveryCaller(c) ==
    /\ closePc[c] = "do"
    /\ closeChanCloses' = closeChanCloses + 1
    /\ nsCloseChan' = "nil"
    /\ closeChanCloser' = TRUE
    /\ closePc' = [closePc EXCEPT ![c] = "conn"]
    /\ UNCHANGED <<conn, wire, connBuf, readLog, chanPc, held, delivered,
                   lastRecv, lastRecvPostClose, lastSend, lastSendPostClose,
                   timedOutPending, nCloseCalls, closeReturned>>
    /\ UNCHANGED <<lisVars, mainVars, cfgVars, stanzaVars, proxyVars>>

\* Close, lines 231-234: closeChanCloser.Do(...).  sync.Once runs the function
\* under its mutex, for the first caller only.
CloseDo(c) ==
    /\ closePc[c] = "do"
    /\ IF closeChanCloser
         THEN UNCHANGED <<closeChanCloses, nsCloseChan, closeChanCloser>>
         ELSE /\ closeChanCloses' = closeChanCloses + 1
              /\ nsCloseChan' = "nil"
              /\ closeChanCloser' = TRUE
    /\ closePc' = [closePc EXCEPT ![c] = "conn"]
    /\ UNCHANGED <<conn, wire, connBuf, readLog, chanPc, held, delivered,
                   lastRecv, lastRecvPostClose, lastSend, lastSendPostClose,
                   timedOutPending, nCloseCalls, closeReturned>>
    /\ UNCHANGED <<lisVars, mainVars, cfgVars, stanzaVars, proxyVars>>

\* Close, line 237: return ns.conn.Close().  Data that arrived and was not
\* read can no longer be read from the closed connection.
CloseConn(c) ==
    /\ closePc[c] = "conn"
    /\ conn' = "closed"
    /\ connBuf' = <<>>
    /\ closeReturned' = TRUE
    /\ closePc' = [closePc EXCEPT ![c] = "idle"]
    /\ UNCHANGED <<wire, readLog, chanPc, held, delivered, lastRecv,
                   lastRecvPostClose, lastSend, lastSendPostClose,
                   timedOutPending, nsCloseChan, closeChanCloser,
                   closeChanCloses, nCloseCalls>>
    /\ UNCHANGED <<lisVars, mainVars, cfgVars, stanzaVars, proxyVars>>

SessionNext ==
    \/ FrameArrives
    \/ ConnFails
    \/ ChannelizerRead
    \/ RecvValue
    \/ RecvTimeout
    \/ Send
    \/ \E c \in Closers : CloseCall(c)
    \/ \E c \in Closers : CloseCheck(c)
    \/ \E c \in Closers : CloseDo(c)
    \/ \E c \in Closers : CloseConn(c)

-----------------------------------------------------------------------------
(* WebsocketListener.Start and the null backend *)

LisInit ==
    /\ startPc = "init"
    /\ ctxCancelled = FALSE
    /\ li = "nil"
    /\ server = "unset"
    /\ servePc = "none"
    /\ wgCount = 0
    /\ cancelPc = "none"
    /\ req = [i \in Requests |-> "none"]
    /\ upgraded = {}
    /\ received = <<>>
    /\ sessChanClosed = FALSE
    /\ sessConnClosed = {}
    /\ inFlightAtCancel = {}
    /\ nullStarted = FALSE
    /\ nullChanClosed = FALSE

\* The cancellation goroutine's call of Close on a nil server panics, and
\* the panic ends the process.
Alive == cancelPc # "panic"

\* Start, lines 124-166, up to the two go statements: net.Listen succeeds or
\* fails; on success the wait group is incremented and both goroutines start.
ListenerStart ==
    /\ startPc = "init"
    /\ \/ /\ startPc' = "failed"
          /\ UNCHANGED <<li, wgCount, servePc, cancelPc>>
       \/ /\ startPc' = "started"
          /\ li' = "open"
          /\ wgCount' = wgCount + 1
          /\ servePc' = "spawned"
          /\ cancelPc' = "waiting"
    /\ UNCHANGED <<ctxCancelled, server, req, upgraded, received, sessChanClosed,
                   sessConnClosed, nullStarted, nullChanClosed>>
    /\ UNCHANGED <<inFlightAtCancel, sessVars, mainVars, cfgVars, stanzaVars, proxyVars>>

\* The context is cancelled (by whoever owns it).
CtxCancel ==
    /\ Alive
    /\ ~ctxCancelled
    /\ ctxCancelled' = TRUE
    /\ inFlightAtCancel' = {i \in Requests : req[i] = "sending"}
    /\ UNCHANGED <<startPc, li, server, servePc, wgCount, cancelPc, req, upgraded,
                   received, sessChanClosed, sessConnClosed, nullStarted,
                   nullChanClosed>>
    /\ UNCHANGED <<sessVars, mainVars, cfgVars, stanzaVars, proxyVars>>

\* Serving goroutine, lines 146-149: b.server = &http.Server{...}.
ServeAssign ==
    /\ Alive
    /\ servePc = "spawned"
    /\ servePc' = "assigned"
    /\ server' = "set"
    /\ UNCHANGED <<startPc, ctxCancelled, li, wgCount, cancelPc, req, upgraded,
                   received, sessChanClosed, sessConnClosed, nullStarted,
                   nullChanClosed>>
    /\ UNCHANGED <<inFlightAtCancel, sessVars, mainVars, cfgVars, stanzaVars, proxyVars>>

\* Serving goroutine, lines 150-155: Serve or ServeTLS starts to accept.  On
\* a server that is already closed it returns ErrServerClosed at once, and
\* it may fail at once (ServeTLS without a certificate); either way it
\* closes the listener, and the deferred wg.Done of line 144 runs.
ServeBegin ==
    /\ Alive
    /\ servePc = "assigned"
    /\ \/ /\ server = "set"
          /\ servePc' = "serving"
          /\ UNCHANGED <<li, wgCount>>
       \/ /\ servePc' = "returned"
          /\ li' = "closed"
          /\ wgCount' = wgCount - 1
    /\ UNCHANGED <<startPc, ctxCancelled, server, cancelPc, req, upgraded,
                   received, sessChanClosed, sessConnClosed, nullStarted,
                   nullChanClosed>>
    /\ UNCHANGED <<inFlightAtCancel, sessVars, mainVars, cfgVars, stanzaVars, proxyVars>>

\* Serving goroutine, lines 151-158 and 144: Serve returns, because the
\* server was closed or because accepting failed; wg.Done runs.
ServeReturn ==
    /\ Alive
    /\ servePc = "serving"
    /\ servePc' = "returned"
    /\ li' = "closed"
    /\ wgCount' = wgCount - 1
    /\ UNCHANGED <<startPc, ctxCancelled, server, cancelPc, req, upgraded,
                   received, sessChanClosed, sessConnClosed, nullStarted,
                   nullChanClosed>>
    /\ UNCHANGED <<inFlightAtCancel, sessVars, mainVars, cfgVars, stanzaVars, proxyVars>>

\* The server accepts a connection and calls the handler of lines 127-137
\* for its request.  Requests are numbered in the order they are accepted.
ConnAccepted(i) ==
    /\ Alive
    /\ servePc = "serving"
    /\ li = "open"
    /\ server = "set"
    /\ req[i] = "none"
    /\ \A j \in Requests : j < i => req[j] # "none"
    /\ req' = [req EXCEPT ![i] = "handling"]
    /\ UNCHANGED <<startPc, ctxCancelled, li, server, servePc, wgCount, cancelPc,
                   upgraded, received, sessChanClosed, sessConnClosed,
                   nullStarted, nullChanClosed>>
    /\ UNCHANGED <<inFlightAtCancel, sessVars, mainVars, cfgVars, stanzaVars, proxyVars>>

\* A variant of the handler that does not return when the upgrade fails:
\* it goes on to make and send a session.
UpgradeIgnoringError(i) ==
    /\ Alive
    /\ req[i] \in {"handling", "cut"}
    /\ \/ /\ req[i] = "handling"
          /\ upgraded' = upgraded \cup {i}
       \/ UNCHANGED upgraded
    /\ req' = [req EXCEPT ![i] = "sending"]
    /\ UNCHANGED <<startPc, ctxCancelled, li, server, servePc, wgCount, cancelPc,
                   received, sessChanClosed, sessConnClosed, nullStarted,
                   nullChanClosed>>
    /\ UNCHANGED <<inFlightAtCancel, sessVars, mainVars, cfgVars, stanzaVars, proxyVars>>

\* Handler, lines 128-135: the upgrade succeeds and a session is made, which
\* the handler goes on to send; or it fails and the handler returns.  On a
\* connection the closed server has cut, the upgrade can only fail.
Upgrade(i) ==
    /\ Alive
    /\ req[i] \in {"handling", "cut"}
    /\ \/ /\ req[i] = "handling"
          /\ upgraded' = upgraded \cup {i}
          /\ req' = [req EXCEPT ![i] = "sending"]
       \/ /\ req' = [req EXCEPT ![i] = "failed"]
          /\ UNCHANGED upgraded
    /\ UNCHANGED <<startPc, ctxCancelled, li, server, servePc, wgCount, cancelPc,
                   received, sessChanClosed, sessConnClosed, nullStarted,
                   nullChanClosed>>
    /\ UNCHANGED <<inFlightAtCancel, sessVars, mainVars, cfgVars, stanzaVars, proxyVars>>

\* The receiver of the session channel (the node, which Start hands the
\* channel to) takes a session whenever one is offered.
ConsumerReady == ~sessChanClosed

\* Handler, line 136: sessChan <- ws.  The channel is unbuffered: the send
\* and the consumer's receive are one step, after which the handler returns.
HandOver(i) ==
    /\ Alive
    /\ req[i] = "sending"
    /\ ConsumerReady
    /\ received' = Append(received, i)
    /\ req' = [req EXCEPT ![i] = "done"]
    /\ UNCHANGED <<startPc, ctxCancelled, li, server, servePc, wgCount, cancelPc,
                   upgraded, sessChanClosed, sessConnClosed, nullStarted,
                   nullChanClosed>>
    /\ UNCHANGED <<inFlightAtCancel, sessVars, mainVars, cfgVars, stanzaVars, proxyVars>>

\* A variant of the cancellation goroutine that also closes the connections
\* of the sessions the handlers are still sending.
CancelClosingSessions ==
    /\ cancelPc = "waiting"
    /\ ctxCancelled
    /\ IF server = "unset"
         THEN /\ cancelPc' = "panic"
              /\ UNCHANGED <<server, li, req, sessConnClosed>>
         ELSE /\ cancelPc' = "done"
              /\ server' = "closed"
              /\ li' = "closed"
              /\ req' = [i \in Requests |-> IF req[i] = "handling" THEN "cut" ELSE req[i]]
              /\ sessConnClosed' = sessConnClosed \cup {i \in Requests : req[i] = "sending"}
    /\ UNCHANGED <<startPc, ctxCancelled, servePc, wgCount, upgraded, received,
                   sessChanClosed, nullStarted, nullChanClosed>>
    /\ UNCHANGED <<inFlightAtCancel, sessVars, mainVars, cfgVars, stanzaVars, proxyVars>>

\* Cancellation goroutine, lines 160-163: <-ctx.Done(); b.server.Close().
\* It reads b.server with no synchronisation with the serving goroutine's
\* assignment: before the assignment it reads nil, and Close on nil panics.
\* Close closes the listener and the connections the server still tracks;
\* it does not close hijacked connections, which those of upgraded
\* websockets are.
CancelGoroutine ==
    /\ cancelPc = "waiting"
    /\ ctxCancelled
    /\ IF server = "unset"
         THEN /\ cancelPc' = "panic"
              /\ UNCHANGED <<server, li, req>>
         ELSE /\ cancelPc' = "done"
              /\ server' = "closed"
              /\ li' = "closed"
              /\ req' = [i \in Requests |-> IF req[i] = "handling" THEN "cut" ELSE req[i]]
    /\ UNCHANGED <<startPc, ctxCancelled, servePc, wgCount, upgraded, received,
                   sessChanClosed, sessConnClosed, nullStarted, nullChanClosed>>
    /\ UNCHANGED <<inFlightAtCancel, sessVars, mainVars, cfgVars, stanzaVars, proxyVars>>

\* nullBackendCfg.Start, lines 74-76: returns a new channel and starts
\* nothing; the context is not used.
NullStart ==
    /\ ~nullStarted
    /\ nullStarted' = TRUE
    /\ nullChanClosed' = FALSE
    /\ UNCHANGED <<startPc, ctxCancelled, li, server, servePc, wgCount, cancelPc,
                   req, upgraded, received, sessChanClosed, sessConnClosed>>
    /\ UNCHANGED <<inFlightAtCancel, sessVars, mainVars, cfgVars, stanzaVars, proxyVars>>

ListenerNext ==
    \/ ListenerStart
    \/ CtxCancel
    \/ ServeAssign
    \/ ServeBegin
    \/ ServeReturn
    \/ \E i \in Requests : ConnAccepted(i)
    \/ \E i \in Requests : Upgrade(i)
    \/ \E i \in Requests : HandOver(i)
    \/ CancelGoroutine
    \/ NullStart

-----------------------------------------------------------------------------
(* func main *)

ArgWords == {"--config", "-c", "f", ""}

ArgLists == UNION {[1..n -> ArgWords] : n \in 0..MaxArgs}

IsConfigFlag(arg) == arg = "--config" \/ arg = "-c"

\* A variant of the scan that does not stop at the first flag: it takes the
\* argument after the last --config or -c.
ConfigPathOfLastFlag(args) ==
    LET flags == {i \in 1..Len(args) : IsConfigFlag(args[i])}
    IN  IF flags = {} THEN ""
        ELSE LET i == CHOOSE k \in flags : \A m \in flags : k >= m
             IN  IF Len(args) > i THEN args[i + 1] ELSE ""

\* main, lines 125-134: the argument after the first --config or -c, or ""
\* when there is no such flag or nothing follows it.
ConfigPath(args) ==
    LET flags == {i \in 1..Len(args) : IsConfigFlag(args[i])}
    IN  IF flags = {} THEN ""
        ELSE LET i == CHOOSE k \in flags : \A m \in flags : k <= m
             IN  IF Len(args) > i THEN args[i + 1] ELSE ""

MainInit ==
    /\ mainPc = "parse"
    /\ osArgs \in ArgLists
    /\ exitCode = -1
    /\ exitMsg = "none"
    /\ reloadInit = "none"
    /\ backendCount = 0
    /\ backendsRunning = 0
    /\ waitPc = "none"
    /\ timer = "off"
    /\ selected = "none"
    /\ initComplete = FALSE
    /\ netDone = FALSE
    /\ doneInGrace = FALSE
    /\ cancelledWhileUp = FALSE

\* os.Exit(code), or the return from main (code 0).
Exit(code, msg) ==
    /\ mainPc' = "exited"
    /\ exitCode' = code
    /\ exitMsg' = msg

\* main, lines 115-123: cl.ParseAndRun runs Init, Prepare and Run of every
\* stanza; an error exits with 1, an exclusive command with 0.  Otherwise
\* the stanzas have added their backends to the node.
ParseAndRun ==
    /\ mainPc = "parse"
    /\ \/ /\ Exit(1, "startup")
          /\ UNCHANGED <<backendCount, backendsRunning>>
       \/ /\ Exit(0, "exclusive")
          /\ UNCHANGED <<backendCount, backendsRunning>>
       \/ /\ \E n \in 0..MaxBackends :
                /\ backendCount' = n
                /\ backendsRunning' = n
          /\ mainPc' = "reload"
          /\ UNCHANGED <<exitCode, exitMsg>>
    /\ UNCHANGED <<osArgs, reloadInit, waitPc, timer, selected, initComplete,
                   netDone, doneInGrace>>
    /\ UNCHANGED <<cancelledWhileUp, sessVars, lisVars, cfgVars, stanzaVars, proxyVars>>

\* main, lines 125-148: reloading is set up when a configuration path was
\* found; InitReload may fail, which exits with 1.
SetupReload ==
    /\ mainPc = "reload"
    /\ IF ConfigPath(osArgs) # ""
         THEN \/ /\ reloadInit' = "ok"
                 /\ mainPc' = "spawn"
                 /\ UNCHANGED <<exitCode, exitMsg>>
              \/ /\ reloadInit' = "err"
                 /\ Exit(1, "reload")
         ELSE /\ mainPc' = "spawn"
              /\ UNCHANGED <<reloadInit, exitCode, exitMsg>>
    /\ UNCHANGED <<osArgs, backendCount, backendsRunning, waitPc, timer, selected,
                   initComplete, netDone, doneInGrace>>
    /\ UNCHANGED <<cancelledWhileUp, sessVars, lisVars, cfgVars, stanzaVars, proxyVars>>

\* main, lines 149-153: the goroutine that waits for the backends starts.
SpawnWait ==
    /\ mainPc = "spawn"
    /\ waitPc' = "waiting"
    /\ mainPc' = "enter"
    /\ UNCHANGED <<osArgs, exitCode, exitMsg, reloadInit, backendCount,
                   backendsRunning, timer, selected, initComplete, netDone,
                   doneInGrace>>
    /\ UNCHANGED <<cancelledWhileUp, sessVars, lisVars, cfgVars, stanzaVars, proxyVars>>

\* main, line 156 and 166: the select is entered.  time.After starts the
\* 100 ms timer; if done is closed already, its case is the one ready.
\* Otherwise main blocks, and the first of the two events wakes it.
EnterSelect ==
    /\ mainPc = "enter"
    /\ timer' = "armed"
    /\ selected' = IF waitPc = "closed" THEN "done" ELSE "none"
    /\ mainPc' = "select"
    /\ UNCHANGED <<osArgs, exitCode, exitMsg, reloadInit, backendCount,
                   backendsRunning, waitPc, initComplete, netDone, doneInGrace>>
    /\ UNCHANGED <<cancelledWhileUp, sessVars, lisVars, cfgVars, stanzaVars, proxyVars>>

Running == mainPc \notin {"parse", "exited"}

\* A backend fails for good: the backend wait group is released once.
BackendFails ==
    /\ Running
    /\ backendsRunning > 0
    /\ backendsRunning' = backendsRunning - 1
    /\ UNCHANGED <<mainPc, osArgs, exitCode, exitMsg, reloadInit, backendCount,
                   waitPc, timer, selected, initComplete, netDone, doneInGrace>>
    /\ UNCHANGED <<cancelledWhileUp, sessVars, lisVars, cfgVars, stanzaVars, proxyVars>>

\* main, lines 151-152: BackendWait returns, as no backend is left running,
\* and done is closed.  A main blocked in the select wakes on it.
BackendWaitReturns ==
    /\ Running
    /\ waitPc = "waiting"
    /\ backendsRunning = 0
    /\ waitPc' = "closed"
    /\ doneInGrace' = (timer # "fired")
    /\ selected' = IF mainPc = "select" /\ selected = "none" THEN "done" ELSE selected
    /\ UNCHANGED <<mainPc, osArgs, exitCode, exitMsg, reloadInit, backendCount,
                   backendsRunning, timer, initComplete, netDone>>
    /\ UNCHANGED <<cancelledWhileUp, sessVars, lisVars, cfgVars, stanzaVars, proxyVars>>

\* main, line 166: the 100 ms timer fires.  A main blocked in the select
\* wakes on it.
TimerFires ==
    /\ Running
    /\ timer = "armed"
    /\ timer' = "fired"
    /\ selected' = IF mainPc = "select" /\ selected = "none" THEN "timeout" ELSE selected
    /\ UNCHANGED <<mainPc, osArgs, exitCode, exitMsg, reloadInit, backendCount,
                   backendsRunning, waitPc, initComplete, netDone, doneInGrace>>
    /\ UNCHANGED <<cancelledWhileUp, sessVars, lisVars, cfgVars, stanzaVars, proxyVars>>

\* A variant of MainDone that exits with 0 when there was nothing to do.
MainDoneCleanWhenIdle ==
    /\ mainPc = "select"
    /\ selected = "done"
    /\ IF backendCount > 0
         THEN Exit(1, "allfailed")
         ELSE Exit(0, "nothing")
    /\ UNCHANGED <<osArgs, reloadInit, backendCount, backendsRunning, waitPc,
                   timer, selected, initComplete, netDone, doneInGrace>>
    /\ UNCHANGED <<cancelledWhileUp, sessVars, lisVars, cfgVars, stanzaVars, proxyVars>>

\* main, lines 157-165: the select woke on done.
MainDone ==
    /\ mainPc = "select"
    /\ selected = "done"
    /\ IF backendCount > 0
         THEN Exit(1, "allfailed")
         ELSE Exit(1, "nothing")
    /\ UNCHANGED <<osArgs, reloadInit, backendCount, backendsRunning, waitPc,
                   timer, selected, initComplete, netDone, doneInGrace>>
    /\ UNCHANGED <<cancelledWhileUp, sessVars, lisVars, cfgVars, stanzaVars, proxyVars>>

\* main, lines 166-168: the select woke on the timer; "Initialization
\* complete" is logged and main goes on to wait for NetceptorDone.
MainTimeout ==
    /\ mainPc = "select"
    /\ selected = "timeout"
    /\ initComplete' = TRUE
    /\ mainPc' = "wait"
    /\ UNCHANGED <<osArgs, exitCode, exitMsg, reloadInit, backendCount,
                   backendsRunning, waitPc, timer, selected, netDone, doneInGrace>>
    /\ UNCHANGED <<cancelledWhileUp, sessVars, lisVars, cfgVars, stanzaVars, proxyVars>>

\* The node's context is cancelled: the channel NetceptorDone() returns is
\* closed.
NetceptorDone ==
    /\ Running
    /\ ~netDone
    /\ netDone' = TRUE
    /\ cancelledWhileUp' = (backendCount > 0 /\ backendsRunning = backendCount)
    /\ UNCHANGED <<mainPc, osArgs, exitCode, exitMsg, reloadInit, backendCount,
                   backendsRunning, waitPc, timer, selected, initComplete,
                   doneInGrace>>
    /\ UNCHANGED <<sessVars, lisVars, cfgVars, stanzaVars, proxyVars>>

\* main, lines 170-171: <-NetceptorDone() returns and main returns.
MainReturn ==
    /\ mainPc = "wait"
    /\ netDone
    /\ Exit(0, "clean")
    /\ UNCHANGED <<osArgs, reloadInit, backendCount, backendsRunning, waitPc,
                   timer, selected, initComplete, netDone, doneInGrace>>
    /\ UNCHANGED <<cancelledWhileUp, sessVars, lisVars, cfgVars, stanzaVars, proxyVars>>

MainNext ==
    \/ ParseAndRun
    \/ SetupReload
    \/ SpawnWait
    \/ EnterSelect
    \/ BackendFails
    \/ BackendWaitReturns
    \/ TimerFires
    \/ MainDone
    \/ MainTimeout
    \/ NetceptorDone
    \/ MainReturn

-----------------------------------------------------------------------------
(* nodeCfg.Init *)

\* Strings are sequences of one-character strings.
LowerOf(c) ==
    CASE c = "L" -> "l" [] c = "O" -> "o" [] c = "C" -> "c" [] c = "A" -> "a"
      [] c = "H" -> "h" [] c = "S" -> "s" [] c = "T" -> "t" [] c = "X" -> "x"
      [] c = "N" -> "n" [] c = "D" -> "d" [] c = "E" -> "e"
      [] OTHER -> c

UpperOf(c) ==
    CASE c = "l" -> "L" [] c = "o" -> "O" [] c = "c" -> "C" [] c = "a" -> "A"
      [] c = "h" -> "H" [] c = "s" -> "S" [] c = "t" -> "T" [] c = "x" -> "X"
      [] c = "n" -> "N" [] c = "d" -> "D" [] c = "e" -> "E"
      [] OTHER -> c

\* strings.ToLower
ToLower(s) == [i \in 1..Len(s) |-> LowerOf(s[i])]

\* strings.HasPrefix
HasPrefix(s, prefix) ==
    /\ Len(s) >= Len(prefix)
    /\ SubSeq(s, 1, Len(prefix)) = prefix

\* strings.Split(s, ",")
RECURSIVE SplitComma(_)
SplitComma(s) ==
    LET commas == {i \in 1..Len(s) : s[i] = ","}
    IN  IF commas = {} THEN <<s>>
        ELSE LET i == CHOOSE k \in commas : \A m \in commas : k <= m
             IN  <<SubSeq(s, 1, i - 1)>> \o SplitComma(SubSeq(s, i + 1, Len(s)))

\* strings.TrimSpace
RECURSIVE TrimSpace(_)
TrimSpace(s) ==
    IF s = <<>> THEN s
    ELSE IF Head(s) = " " THEN TrimSpace(Tail(s))
    ELSE IF s[Len(s)] = " " THEN TrimSpace(SubSeq(s, 1, Len(s) - 1))
    ELSE s

LocalHost == <<"l", "o", "c", "a", "l", "h", "o", "s", "t">>
LocalHostDot == LocalHost \o <<".">>

\* The names the inputs are drawn from, each with up to MaxUpper of its
\* letters in upper case.
BaseNames ==
    { LocalHost,
      LocalHostDot,
      LocalHost \o <<".", "x">>,
      LocalHost \o <<"x">>,
      <<"x">> \o LocalHost,
      SubSeq(LocalHost, 1, 8),
      <<"n", "o", "d", "e">> }

Upcase(w, S) == [i \in 1..Len(w) |-> IF i \in S THEN UpperOf(w[i]) ELSE w[i]]

Variants(w) ==
    {Upcase(w, S) : S \in {T \in SUBSET (1..Len(w)) : Cardinality(T) <= MaxUpper}}

Names == UNION {Variants(w) : w \in BaseNames}

ConfiguredIDs == Names \cup {<<>>}

PeerStrings ==
    { <<>>,
      <<"a">>,
      <<"a", ",", "b">>,
      <<" ", "a", ",", " ", "b", " ">>,
      <<",">> }

\* What os.Hostname returned, if Init asked for it.
NotAsked == [asked |-> FALSE, err |-> FALSE, name |-> <<>>]
HostOutcomes ==
    {[asked |-> TRUE, err |-> TRUE, name |-> <<>>]}
      \cup {[asked |-> TRUE, err |-> FALSE, name |-> n] : n \in Names}

NoNode == [made |-> FALSE, id |-> <<>>, peers |-> <<>>]

InitFails(e) == [err |-> e, nc |-> NoNode, work |-> FALSE, ctl |-> FALSE]

\* Init, lines 44-50
AllowedPeers(peers) ==
    IF peers # <<>>
      THEN [i \in 1..Len(SplitComma(peers)) |-> TrimSpace(SplitComma(peers)[i])]
      ELSE <<>>

\* A variant of Init that compares the node ID with "localhost" as it is
\* written, without lower-casing it.
NodeCfgInitCaseSensitive(id, peers, host, workErr, regErr) ==
    LET lchost == ToLower(host.name)
        id2 == IF id = <<>> THEN host.name ELSE id
        node == [made |-> TRUE, id |-> id2, peers |-> AllowedPeers(peers)]
    IN  IF id = <<>> /\ host.err
          THEN InitFails("hostname")
        ELSE IF id = <<>> /\ (lchost = LocalHost \/ HasPrefix(lchost, LocalHostDot))
          THEN InitFails("nohostid")
        ELSE IF id2 = LocalHost
          THEN InitFails("reserved")
        ELSE IF workErr
          THEN [err |-> "workceptor", nc |-> node, work |-> FALSE, ctl |-> FALSE]
        ELSE IF regErr
          THEN [err |-> "register", nc |-> node, work |-> TRUE, ctl |-> TRUE]
        ELSE [err |-> "none", nc |-> node, work |-> TRUE, ctl |-> TRUE]

\* A variant of Init in which the host name assigned at line 39 is lost: the
\* checks and the constructor that follow see the configured, empty ID.
NodeCfgInitDefaultLost(id, peers, host, workErr, regErr) ==
    LET lchost == ToLower(host.name)
        node == [made |-> TRUE, id |-> id, peers |-> AllowedPeers(peers)]
    IN  IF id = <<>> /\ host.err
          THEN InitFails("hostname")
        ELSE IF id = <<>> /\ (lchost = LocalHost \/ HasPrefix(lchost, LocalHostDot))
          THEN InitFails("nohostid")
        ELSE IF ToLower(id) = LocalHost
          THEN InitFails("reserved")
        ELSE IF workErr
          THEN [err |-> "workceptor", nc |-> node, work |-> FALSE, ctl |-> FALSE]
        ELSE IF regErr
          THEN [err |-> "register", nc |-> node, work |-> TRUE, ctl |-> TRUE]
        ELSE [err |-> "none", nc |-> node, work |-> TRUE, ctl |-> TRUE]

\* A variant of Init that rejects the host name "localhost" only, and not
\* the names that begin with "localhost.".
NodeCfgInitExactHostOnly(id, peers, host, workErr, regErr) ==
    LET lchost == ToLower(host.name)
        id2 == IF id = <<>> THEN host.name ELSE id
        node == [made |-> TRUE, id |-> id2, peers |-> AllowedPeers(peers)]
    IN  IF id = <<>> /\ host.err
          THEN InitFails("hostname")
        ELSE IF id = <<>> /\ lchost = LocalHost
          THEN InitFails("nohostid")
        ELSE IF ToLower(id2) = LocalHost
          THEN InitFails("reserved")
        ELSE IF workErr
          THEN [err |-> "workceptor", nc |-> node, work |-> FALSE, ctl |-> FALSE]
        ELSE IF regErr
          THEN [err |-> "register", nc |-> node, work |-> TRUE, ctl |-> TRUE]
        ELSE [err |-> "none", nc |-> node, work |-> TRUE, ctl |-> TRUE]

\* nodeCfg.Init, lines 28-63, as a function of the configuration, of what
\* os.Hostname returns and of whether workceptor.New and
\* RegisterWithControlService fail.  cfg is Init's own copy of the
\* configuration: the assignment of line 39 is read at lines 41 and 51.
NodeCfgInit(id, peers, host, workErr, regErr) ==
    LET lchost == ToLower(host.name)
        id2 == IF id = <<>> THEN host.name ELSE id
        node == [made |-> TRUE, id |-> id2, peers |-> AllowedPeers(peers)]
    IN  IF id = <<>> /\ host.err
          THEN InitFails("hostname")
        ELSE IF id = <<>> /\ (lchost = LocalHost \/ HasPrefix(lchost, LocalHostDot))
          THEN InitFails("nohostid")
        ELSE IF ToLower(id2) = LocalHost
          THEN InitFails("reserved")
        ELSE IF workErr
          THEN [err |-> "workceptor", nc |-> node, work |-> FALSE, ctl |-> FALSE]
        ELSE IF regErr
          THEN [err |-> "register", nc |-> node, work |-> TRUE, ctl |-> TRUE]
        ELSE [err |-> "none", nc |-> node, work |-> TRUE, ctl |-> TRUE]

CfgInit ==
    /\ cfgID \in ConfiguredIDs
    /\ cfgAllowedPeers \in PeerStrings
    /\ initPc = "ready"
    /\ hostName = NotAsked
    /\ initErr = "none"
    /\ netceptorMade = FALSE
    /\ ncID = <<>>
    /\ ncAllowedPeers = <<>>
    /\ workceptorMade = FALSE
    /\ controlsvcMade = FALSE

\* The Init phase of ParseAndRun calls nodeCfg.Init.
NodeInit ==
    /\ initPc = "ready"
    /\ \E host \in (IF cfgID = <<>> THEN HostOutcomes ELSE {NotAsked}),
          workErr \in BOOLEAN, regErr \in BOOLEAN :
          LET r == NodeCfgInit(cfgID, cfgAllowedPeers, host, workErr, regErr)
          IN  /\ hostName' = host
              /\ initErr' = r.err
              /\ netceptorMade' = r.nc.made
              /\ ncID' = r.nc.id
              /\ ncAllowedPeers' = r.nc.peers
              /\ workceptorMade' = r.work
              /\ controlsvcMade' = r.ctl
    /\ initPc' = "done"
    /\ UNCHANGED <<cfgID, cfgAllowedPeers>>
    /\ UNCHANGED <<sessVars, lisVars, mainVars, stanzaVars, proxyVars>>

\* nodeCfg.Run, lines 65-69, which the Run phase calls when Init and
\* Prepare returned no error.
NodeRun ==
    /\ initPc = "done"
    /\ initErr = "none"
    /\ initPc' = "ran"
    /\ UNCHANGED <<cfgID, cfgAllowedPeers, hostName, initErr, netceptorMade, ncID,
                   ncAllowedPeers, workceptorMade, controlsvcMade>>
    /\ UNCHANGED <<sessVars, lisVars, mainVars, stanzaVars, proxyVars>>

CfgNext ==
    \/ NodeInit
    \/ NodeRun

-----------------------------------------------------------------------------
(* Backend stanzas: ws-listener, ws-peer, local-only, WSListen, WSDial *)

\* Costs are float64 in the code; the model draws them from these values,
\* which lie on both sides of the comparisons with 0.0.
Costs == {-1, 0, 1, 2}

NodeNames == {"a", "b"}

\* map[string]float64: a cost for each of some nodes.  The empty map also
\* stands for nil, which range treats alike.
NodeCostMaps == UNION {[D -> Costs] : D \in SUBSET NodeNames}

NoNodeCost == [n \in {} |-> 0]

\* strings.Contains(s, ":")
ContainsColon(s) == \E i \in 1..Len(s) : s[i] = ":"

\* strings.SplitN(s, ":", 2)
SplitN2(s) ==
    IF ~ContainsColon(s) THEN <<s>>
    ELSE LET i == CHOOSE k \in 1..Len(s) :
                      s[k] = ":" /\ \A m \in 1..(k - 1) : s[m] # ":"
         IN  <<SubSeq(s, 1, i - 1), SubSeq(s, i + 1, Len(s))>>

\* The characters addresses are written with: letters, a digit, and the
\* characters url.Parse gives a meaning to.
IsLetter(c) == c \in {"w", "s", "h", "k"}
IsDigit(c) == c = "1"
IsHex(c) == IsDigit(c)

\* url.getScheme: the index of the colon that ends the scheme, 0 when the
\* string has no scheme, -1 for the error "missing protocol scheme".
RECURSIVE SchemeEnd(_, _)
SchemeEnd(s, i) ==
    IF i > Len(s) THEN 0
    ELSE IF IsLetter(s[i]) THEN SchemeEnd(s, i + 1)
    ELSE IF IsDigit(s[i]) \/ s[i] = "."
      THEN IF i = 1 THEN 0 ELSE SchemeEnd(s, i + 1)
    ELSE IF s[i] = ":"
      THEN IF i = 1 THEN -1 ELSE i
    ELSE 0

\* The part of s before its first "/", or all of it.
FirstSegment(s) ==
    LET slashes == {i \in 1..Len(s) : s[i] = "/"}
    IN  IF slashes = {} THEN s
        ELSE SubSeq(s, 1, (CHOOSE k \in slashes : \A m \in slashes : k <= m) - 1)

\* url.validOptionalPort on the text after the last colon of the host.
ValidPort(host) ==
    LET colons == {i \in 1..Len(host) : host[i] = ":"}
    IN  IF colons = {} THEN TRUE
        ELSE LET i == CHOOSE k \in colons : \A m \in colons : k >= m
             IN  \A j \in (i + 1)..Len(host) : IsDigit(host[j])

\* url.unescape: a "%" that two hexadecimal digits do not follow.
BadEscape(s) ==
    \E i \in 1..Len(s) :
        /\ s[i] = "%"
        /\ ~(i + 2 <= Len(s) /\ IsHex(s[i + 1]) /\ IsHex(s[i + 2]))

\* url.Parse(address): the scheme it finds and whether it returns an error.
\* Addresses here have no user info, query, fragment or IPv6 literal.
UrlParse(address) ==
    LET e == SchemeEnd(address, 1)
        scheme == IF e > 0 THEN SubSeq(address, 1, e - 1) ELSE <<>>
        rest == IF e > 0 THEN SubSeq(address, e + 1, Len(address)) ELSE address
        rooted == HasPrefix(rest, <<"/">>)
        hasAuthority == HasPrefix(rest, <<"/", "/">>)
        authority == FirstSegment(SubSeq(rest, 3, Len(rest)))
        bad ==
            \/ \E i \in 1..Len(address) : address[i] = "\n"
            \/ e = -1
            \/ ~rooted /\ scheme = <<>> /\ ContainsColon(FirstSegment(rest))
            \/ hasAuthority /\ ~ValidPort(authority)
            \/ (rooted \/ scheme = <<>>) /\ BadEscape(rest)
    IN  [err |-> bad, scheme |-> IF bad THEN <<>> ELSE scheme]

Addresses ==
    { <<"w", "s", ":", "/", "/", "h", ":", "1">>,
      <<"w", "s", "s", ":", "/", "/", "h">>,
      <<"h">>,
      <<>>,
      <<"h", ":", "1">>,
      <<"1", ":", "1">>,
      <<":", "/", "/", "h">>,
      <<"w", "s", ":", "/", "/", "h", ":", "k">>,
      <<"w", "s", ":", "/", "/", "h", "/", "%", "k">>,
      <<"w", "s", ":", "/", "/", "h", "\n">> }

ExtraHeaders ==
    { <<>>,
      <<"k", ":", "v">>,
      <<"k", "v">>,
      <<":">>,
      <<"k", ":", "v", ":", "w">> }

\* A stanza's fields.  The fields a kind of stanza does not have keep the
\* values of BlankCfg.  costSet, hdrSet and tlsSet say that the pointer
\* fields Cost, ExtraHeader and TLS of WSListen and WSDial are not nil.
BlankCfg ==
    [cost |-> 1, costSet |-> TRUE, nodeCost |-> NoNodeCost, address |-> <<>>,
     header |-> <<>>, hdrSet |-> TRUE, tlsSet |-> FALSE]

Kinds == {"ws-listener", "ws-peer", "local-only", "WSListen", "WSDial"}

CfgsOf(kind) ==
    CASE kind = "ws-listener" ->
           {[BlankCfg EXCEPT !.cost = c, !.nodeCost = nc] :
               c \in Costs, nc \in NodeCostMaps}
      [] kind = "ws-peer" ->
           {[BlankCfg EXCEPT !.cost = c, !.address = a, !.header = h] :
               c \in Costs, a \in Addresses, h \in ExtraHeaders}
      [] kind = "local-only" -> {BlankCfg}
      [] kind = "WSListen" ->
           {[BlankCfg EXCEPT !.cost = c, !.nodeCost = nc, !.tlsSet = t] :
               c \in Costs, nc \in NodeCostMaps, t \in BOOLEAN}
             \cup {[BlankCfg EXCEPT !.costSet = FALSE, !.nodeCost = nc, !.tlsSet = t] :
                      nc \in NodeCostMaps, t \in BOOLEAN}
      [] kind = "WSDial" ->
           {x \in {[BlankCfg EXCEPT !.cost = c, !.costSet = cs, !.address = a,
                                    !.header = h, !.hdrSet = hs, !.tlsSet = t] :
                      c \in Costs, cs \in BOOLEAN, a \in Addresses,
                      h \in ExtraHeaders, hs \in BOOLEAN, t \in BOOLEAN} :
               /\ x.costSet \/ x.cost = 1
               /\ x.hdrSet \/ x.header = <<>>}

\* What the node and the TLS configuration answer when a stanza is run:
\* whether the TLS configuration cannot be made, and whether AddBackend
\* returns an error.
Envs == [tlsErr : BOOLEAN, addErr : BOOLEAN]

\* The call of AddBackend a run makes, if it makes one.
NoCall == [made |-> FALSE, kind |-> "none", cost |-> 0, nodeCost |-> NoNodeCost,
           header |-> <<>>]

AddCall(kind, cost, nodeCost, header) ==
    [made |-> TRUE, kind |-> kind, cost |-> cost, nodeCost |-> nodeCost,
     header |-> header]

\* A variant of the listener's Prepare that looks at Cost only.
ListenerPrepareCostOnly(cfg) ==
    IF cfg.cost <= 0 THEN "cost"
    ELSE "none"

\* websocketListenerCfg.Prepare, lines 255-266.
ListenerPrepare(cfg) ==
    IF cfg.cost <= 0 THEN "cost"
    ELSE IF \E n \in DOMAIN cfg.nodeCost : cfg.nodeCost[n] <= 0 THEN "nodecost"
    ELSE "none"

\* A variant of the dialer's Prepare without the check of the extra header.
DialerPrepareAnyHeader(cfg) ==
    IF cfg.cost <= 0 THEN "cost"
    ELSE IF UrlParse(cfg.address).err THEN "url"
    ELSE "none"

\* websocketDialerCfg.Prepare, lines 300-312.
DialerPrepare(cfg) ==
    IF cfg.cost <= 0 THEN "cost"
    ELSE IF UrlParse(cfg.address).err THEN "url"
    ELSE IF cfg.header # <<>> /\ ~ContainsColon(cfg.header) THEN "header"
    ELSE "none"

\* websocketListenerCfg.Run, lines 269-288.  NewWebsocketListener, lines
\* 91-100, returns no error.
ListenerRun(cfg, env) ==
    IF env.tlsErr THEN [err |-> "tls", call |-> NoCall]
    ELSE [err |-> IF env.addErr THEN "add" ELSE "none",
          call |-> AddCall("listener", cfg.cost, cfg.nodeCost, <<>>)]

\* NewWebsocketDialer, lines 34-52: fails when the address does not parse.
NewWebsocketDialerFails(address) == UrlParse(address).err

\* websocketDialerCfg.Run, lines 315-341.
DialerRun(cfg, env) ==
    IF UrlParse(cfg.address).err THEN [err |-> "url", call |-> NoCall]
    ELSE IF env.tlsErr THEN [err |-> "tls", call |-> NoCall]
    ELSE IF NewWebsocketDialerFails(cfg.address) THEN [err |-> "create", call |-> NoCall]
    ELSE [err |-> IF env.addErr THEN "add" ELSE "none",
          call |-> AddCall("dialer", cfg.cost, NoNodeCost, cfg.header)]

\* nullBackendCfg.Run, main package lines 79-86.
NullRun(cfg, env) ==
    [err |-> IF env.addErr THEN "add" ELSE "none",
     call |-> AddCall("null", 1, NoNodeCost, <<>>)]

\* PreReload, lines 343-349.
DialerPreReload(cfg) == DialerPrepare(cfg)

ListenerPreReload(cfg) == ListenerPrepare(cfg)

\* A variant of the listener's Reload that registers the backend without
\* the per-node costs.
ListenerReloadNoNodeCost(cfg, env) ==
    IF env.tlsErr THEN [err |-> "tls", call |-> NoCall]
    ELSE [err |-> IF env.addErr THEN "add" ELSE "none",
          call |-> AddCall("listener", cfg.cost, NoNodeCost, <<>>)]

\* Reload, lines 351-357, and nullBackendCfg.Reload, main package 88-90.
ListenerReload(cfg, env) == ListenerRun(cfg, env)

DialerReload(cfg, env) == DialerRun(cfg, env)

NullReload(cfg, env) == NullRun(cfg, env)

\* validateListenerCost and validateDialCost: a nil cost stands for 1.0; a
\* cost, or a per-node cost, that is not positive is an error.
ValidateListenerCost(cfg) ==
    LET cost == IF cfg.costSet THEN cfg.cost ELSE 1
    IN  [err |-> \/ cost <= 0
                 \/ \E n \in DOMAIN cfg.nodeCost : cfg.nodeCost[n] <= 0,
         cost |-> cost, nodeCost |-> cfg.nodeCost]

ValidateDialCost(cfg) ==
    LET cost == IF cfg.costSet THEN cfg.cost ELSE 1
    IN  [err |-> cost <= 0, cost |-> cost]

\* WSListen.setup, lines 381-409.  NewWebsocketListener returns no error, so
\* the SetPath of line 393 has a listener to act on.
WSListenSetup(cfg, env) ==
    IF cfg.tlsSet /\ env.tlsErr THEN [err |-> "tls", call |-> NoCall]
    ELSE IF ValidateListenerCost(cfg).err THEN [err |-> "cost", call |-> NoCall]
    ELSE [err |-> IF env.addErr THEN "add" ELSE "none",
          call |-> AddCall("listener", ValidateListenerCost(cfg).cost,
                           ValidateListenerCost(cfg).nodeCost, <<>>)]

\* A variant of WSDial.setup that adds the backend as soon as it is made,
\* before the cost is validated.
WSDialSetupAddsFirst(cfg, env) ==
    LET extraHeader == IF cfg.hdrSet THEN cfg.header ELSE <<>>
    IN  IF cfg.hdrSet /\ (cfg.header = <<>> \/ ~ContainsColon(cfg.header))
          THEN [err |-> "header", call |-> NoCall]
        ELSE IF cfg.tlsSet /\ env.tlsErr THEN [err |-> "tls", call |-> NoCall]
        ELSE IF NewWebsocketDialerFails(cfg.address)
          THEN [err |-> "create", call |-> NoCall]
        ELSE [err |-> IF env.addErr THEN "add"
                      ELSE IF ValidateDialCost(cfg).err THEN "cost" ELSE "none",
              call |-> AddCall("dialer", cfg.cost, NoNodeCost, extraHeader)]

\* WSDial.setup, lines 425-457.
WSDialSetup(cfg, env) ==
    LET extraHeader == IF cfg.hdrSet THEN cfg.header ELSE <<>>
    IN  IF cfg.hdrSet /\ (cfg.header = <<>> \/ ~ContainsColon(cfg.header))
          THEN [err |-> "header", call |-> NoCall]
        ELSE IF cfg.tlsSet /\ env.tlsErr THEN [err |-> "tls", call |-> NoCall]
        ELSE IF NewWebsocketDialerFails(cfg.address)
          THEN [err |-> "create", call |-> NoCall]
        ELSE IF ValidateDialCost(cfg).err THEN [err |-> "cost", call |-> NoCall]
        ELSE [err |-> IF env.addErr THEN "add" ELSE "none",
              call |-> AddCall("dialer", ValidateDialCost(cfg).cost, NoNodeCost,
                               extraHeader)]

\* The method a phase calls on a stanza of each kind.  nullBackendCfg has
\* neither Prepare nor PreReload: those phases pass it by.
PrepareOf(kind, cfg) ==
    CASE kind = "ws-listener" -> ListenerPrepare(cfg)
      [] kind = "ws-peer" -> DialerPrepare(cfg)
      [] OTHER -> "none"

PreReloadOf(kind, cfg) ==
    CASE kind = "ws-listener" -> ListenerPreReload(cfg)
      [] kind = "ws-peer" -> DialerPreReload(cfg)
      [] OTHER -> "none"

RunOf(kind, cfg, env) ==
    CASE kind = "ws-listener" -> ListenerRun(cfg, env)
      [] kind = "ws-peer" -> DialerRun(cfg, env)
      [] OTHER -> NullRun(cfg, env)

ReloadOf(kind, cfg, env) ==
    CASE kind = "ws-listener" -> ListenerReload(cfg, env)
      [] kind = "ws-peer" -> DialerReload(cfg, env)
      [] OTHER -> NullReload(cfg, env)

SetupOf(kind, cfg, env) ==
    CASE kind = "WSListen" -> WSListenSetup(cfg, env)
      [] OTHER -> WSDialSetup(cfg, env)

CmdlineKinds == {"ws-listener", "ws-peer", "local-only"}

StanzaInit ==
    /\ stKind \in Kinds
    /\ stCfg \in CfgsOf(stKind)
    /\ stPc = "parsed"
    /\ prepLog = <<>>
    /\ runLog = <<>>
    /\ added = <<>>
    /\ dialed = {}
    /\ dialPanic = FALSE

\* AddBackend: the node takes the backend unless it returns an error.
AddBackend(call, env) ==
    added' = IF call.made /\ ~env.addErr THEN Append(added, call) ELSE added

\* The Prepare phase of ParseAndRun (main package, line 115) calls the
\* stanza's Prepare; an error ends the start-up.
StanzaPrepare ==
    /\ stKind \in CmdlineKinds
    /\ stPc = "parsed"
    /\ LET err == PrepareOf(stKind, stCfg)
       IN  /\ prepLog' = Append(prepLog, [phase |-> "Prepare", cfg |-> stCfg, err |-> err])
           /\ stPc' = IF err = "none" THEN "prepared" ELSE "failed"
    /\ UNCHANGED <<stKind, stCfg, runLog, added, dialed, dialPanic>>
    /\ UNCHANGED <<sessVars, lisVars, mainVars, cfgVars, proxyVars>>

\* The Run phase, which follows a Prepare phase without error, calls the
\* stanza's Run.
StanzaRun ==
    /\ stKind \in CmdlineKinds
    /\ stPc = "prepared"
    /\ \E env \in Envs :
          LET r == RunOf(stKind, stCfg, env)
          IN  /\ runLog' = Append(runLog, [phase |-> "Run", cfg |-> stCfg, env |-> env,
                                           err |-> r.err, call |-> r.call])
              /\ AddBackend(r.call, env)
              /\ stPc' = IF r.err = "none" THEN "ran" ELSE "failed"
    /\ UNCHANGED <<stKind, stCfg, prepLog, dialed, dialPanic>>
    /\ UNCHANGED <<sessVars, lisVars, mainVars, cfgVars, proxyVars>>

\* A reload of the running node parses the configuration file again; the
\* stanza may have changed.
ConfigReparsed ==
    /\ stKind \in CmdlineKinds
    /\ stPc = "ran"
    /\ stCfg' \in CfgsOf(stKind)
    /\ stPc' = "reparsed"
    /\ UNCHANGED <<stKind, prepLog, runLog, added, dialed, dialPanic>>
    /\ UNCHANGED <<sessVars, lisVars, mainVars, cfgVars, proxyVars>>

\* The reload calls the stanza's PreReload; an error ends the reload.
StanzaPreReload ==
    /\ stPc = "reparsed"
    /\ LET err == PreReloadOf(stKind, stCfg)
       IN  /\ prepLog' = Append(prepLog, [phase |-> "PreReload", cfg |-> stCfg, err |-> err])
           /\ stPc' = IF err = "none" THEN "prereloaded" ELSE "reloadfailed"
    /\ UNCHANGED <<stKind, stCfg, runLog, added, dialed, dialPanic>>
    /\ UNCHANGED <<sessVars, lisVars, mainVars, cfgVars, proxyVars>>

\* The reload then calls the stanza's Reload.
StanzaReload ==
    /\ stPc = "prereloaded"
    /\ \E env \in Envs :
          LET r == ReloadOf(stKind, stCfg, env)
          IN  /\ runLog' = Append(runLog, [phase |-> "Reload", cfg |-> stCfg, env |-> env,
                                           err |-> r.err, call |-> r.call])
              /\ AddBackend(r.call, env)
              /\ stPc' = IF r.err = "none" THEN "reloaded" ELSE "reloadfailed"
    /\ UNCHANGED <<stKind, stCfg, prepLog, dialed, dialPanic>>
    /\ UNCHANGED <<sessVars, lisVars, mainVars, cfgVars, proxyVars>>

\* setup is called on a WSListen or WSDial with the node it configures.
StanzaSetup ==
    /\ stKind \notin CmdlineKinds
    /\ stPc = "parsed"
    /\ \E env \in Envs :
          LET r == SetupOf(stKind, stCfg, env)
          IN  /\ runLog' = Append(runLog, [phase |-> "setup", cfg |-> stCfg, env |-> env,
                                           err |-> r.err, call |-> r.call])
              /\ AddBackend(r.call, env)
              /\ stPc' = IF r.err = "none" THEN "ran" ELSE "failed"
    /\ UNCHANGED <<stKind, stCfg, prepLog, dialed, dialPanic>>
    /\ UNCHANGED <<sessVars, lisVars, mainVars, cfgVars, proxyVars>>

\* WebsocketDialer.Start, lines 55-79: the dial function of a dialer the node
\* has started builds its headers.  With an extra header it indexes both
\* parts of the split, which panics when there is one part only.
DialFunction(i) ==
    /\ i \in DOMAIN added
    /\ added[i].kind = "dialer"
    /\ i \notin dialed
    /\ dialed' = dialed \cup {i}
    /\ dialPanic' = (dialPanic \/ (added[i].header # <<>> /\ Len(SplitN2(added[i].header)) < 2))
    /\ UNCHANGED <<stKind, stCfg, stPc, prepLog, runLog, added>>
    /\ UNCHANGED <<sessVars, lisVars, mainVars, cfgVars, proxyVars>>

StanzaNext ==
    \/ StanzaPrepare
    \/ StanzaRun
    \/ ConfigReparsed
    \/ StanzaPreReload
    \/ StanzaReload
    \/ StanzaSetup
    \/ \E i \in DOMAIN added : DialFunction(i)

-----------------------------------------------------------------------------
(* The Unix-socket proxies *)

ProxyInit ==
    /\ pxKind \in {"inbound", "outbound"}
    /\ pxPc = "start"
    /\ pxEnd = "none"
    /\ pxConns = <<>>

\* The proxy returns.
ProxyReturns(why) ==
    /\ pxPc' = "ended"
    /\ pxEnd' = why

\* UnixProxyServiceInbound, lines 474-479: lock.TryLock().
TryLock ==
    /\ pxKind = "inbound"
    /\ pxPc = "start"
    /\ \/ pxPc' = "locked" /\ UNCHANGED pxEnd
       \/ ProxyReturns("lock")
    /\ UNCHANGED <<pxKind, pxConns>>
    /\ UNCHANGED <<sessVars, lisVars, mainVars, cfgVars, stanzaVars>>

\* UnixProxyServiceInbound, lines 480-484: os.RemoveAll(filename).
RemoveAll ==
    /\ pxPc = "locked"
    /\ \/ pxPc' = "cleared" /\ UNCHANGED pxEnd
       \/ ProxyReturns("clear")
    /\ UNCHANGED <<pxKind, pxConns>>
    /\ UNCHANGED <<sessVars, lisVars, mainVars, cfgVars, stanzaVars>>

\* UnixProxyServiceInbound, lines 485-489: net.Listen("unix", filename).
Listen ==
    /\ pxPc = "cleared"
    /\ \/ pxPc' = "accept" /\ UNCHANGED pxEnd
       \/ ProxyReturns("listen")
    /\ UNCHANGED <<pxKind, pxConns>>
    /\ UNCHANGED <<sessVars, lisVars, mainVars, cfgVars, stanzaVars>>

\* UnixProxyServiceOutbound, lines 507-514: s.ListenAndAdvertise(...).
ListenAndAdvertise ==
    /\ pxKind = "outbound"
    /\ pxPc = "start"
    /\ \/ pxPc' = "accept" /\ UNCHANGED pxEnd
       \/ ProxyReturns("listen")
    /\ UNCHANGED <<pxKind, pxConns>>
    /\ UNCHANGED <<sessVars, lisVars, mainVars, cfgVars, stanzaVars>>

\* Lines 491-495 and 516-521: Accept returns a connection, or an error that
\* ends the proxy.
Accept ==
    /\ pxPc = "accept"
    /\ \/ /\ Len(pxConns) < MaxConns
          /\ pxConns' = Append(pxConns, "accepted")
          /\ pxPc' = "dial"
          /\ UNCHANGED pxEnd
       \/ /\ ProxyReturns("accept")
          /\ UNCHANGED pxConns
    /\ UNCHANGED pxKind
    /\ UNCHANGED <<sessVars, lisVars, mainVars, cfgVars, stanzaVars>>

\* Lines 496-501 and 522-527: the second leg is opened (s.Dial, or net.Dial
\* on the socket) and the two connections are bridged; when it fails, the
\* loop continues and leaves the accepted connection as it is, open, with
\* no reference to it.
SecondLeg ==
    /\ pxPc = "dial"
    /\ \/ pxConns' = [pxConns EXCEPT ![Len(pxConns)] = "bridged"]
       \/ pxConns' = [pxConns EXCEPT ![Len(pxConns)] = "dropped"]
    /\ pxPc' = "accept"
    /\ UNCHANGED <<pxKind, pxEnd>>
    /\ UNCHANGED <<sessVars, lisVars, mainVars, cfgVars, stanzaVars>>

\* The inbound proxy's accepted connection is a *net.UnixConn: when the
\* garbage collector finds it unreachable, its finalizer closes the
\* descriptor.  Nothing obliges a collection to happen.  The outbound
\* proxy's accepted connection is the node's own connection type.
ConnCollected(i) ==
    /\ pxKind = "inbound"
    /\ i \in DOMAIN pxConns
    /\ pxConns[i] = "dropped"
    /\ pxConns' = [pxConns EXCEPT ![i] = "closed"]
    /\ UNCHANGED <<pxKind, pxPc, pxEnd>>
    /\ UNCHANGED <<sessVars, lisVars, mainVars, cfgVars, stanzaVars>>

ProxyNext ==
    \/ TryLock
    \/ RemoveAll
    \/ Listen
    \/ ListenAndAdvertise
    \/ Accept
    \/ SecondLeg
    \/ \E i \in DOMAIN pxConns : ConnCollected(i)

-----------------------------------------------------------------------------
(* Specifications.  Each runs one sub-system; the others stay as they are *)
(* before they start.                                                     *)

SessIdle == newWebsocketSession("nil")

MainIdle ==
    /\ mainPc = "parse"
    /\ osArgs = <<>>
    /\ exitCode = -1
    /\ exitMsg = "none"
    /\ reloadInit = "none"
    /\ backendCount = 0
    /\ backendsRunning = 0
    /\ waitPc = "none"
    /\ timer = "off"
    /\ selected = "none"
    /\ initComplete = FALSE
    /\ netDone = FALSE
    /\ doneInGrace = FALSE
    /\ cancelledWhileUp = FALSE

CfgIdle ==
    /\ cfgID = <<>>
    /\ cfgAllowedPeers = <<>>
    /\ initPc = "ready"
    /\ hostName = NotAsked
    /\ initErr = "none"
    /\ netceptorMade = FALSE
    /\ ncID = <<>>
    /\ ncAllowedPeers = <<>>
    /\ workceptorMade = FALSE
    /\ controlsvcMade = FALSE

StanzaIdle ==
    /\ stKind = "local-only"
    /\ stCfg = BlankCfg
    /\ stPc = "parsed"
    /\ prepLog = <<>>
    /\ runLog = <<>>
    /\ added = <<>>
    /\ dialed = {}
    /\ dialPanic = FALSE

ProxyIdle ==
    /\ pxKind = "inbound"
    /\ pxPc = "start"
    /\ pxEnd = "none"
    /\ pxConns = <<>>

OtherIdle == StanzaIdle /\ ProxyIdle

SessionSpecInit == SessInit /\ LisInit /\ MainIdle /\ CfgIdle /\ OtherIdle

SessionSpec == SessionSpecInit /\ [][SessionNext]_vars

\* The receive goroutine is scheduled; nothing obliges the owner to call
\* Recv, Send or Close, nor the peer to write.
FairSessionSpec == SessionSpec /\ WF_vars(ChannelizerRead)

ListenerSpecInit == SessIdle /\ LisInit /\ MainIdle /\ CfgIdle /\ OtherIdle

ListenerSpec == ListenerSpecInit /\ [][ListenerNext]_vars

\* The goroutines Start makes and the handlers are scheduled, and the
\* receiver of the session channel keeps receiving.  Nothing obliges the
\* context to be cancelled or a connection to arrive.
FairListenerSpec ==
    /\ ListenerSpec
    /\ WF_vars(ServeAssign)
    /\ WF_vars(ServeBegin)
    /\ WF_vars(CancelGoroutine)
    /\ \A i \in Requests : WF_vars(Upgrade(i))
    /\ \A i \in Requests : WF_vars(HandOver(i))

MainSpecInit == SessIdle /\ LisInit /\ MainInit /\ CfgIdle /\ OtherIdle

MainSpec == MainSpecInit /\ [][MainNext]_vars

\* main and the goroutine it starts are scheduled, and the timer fires.
\* Nothing obliges a backend to fail or the node's context to be cancelled.
FairMainSpec ==
    /\ MainSpec
    /\ WF_vars(ParseAndRun)
    /\ WF_vars(SetupReload)
    /\ WF_vars(SpawnWait)
    /\ WF_vars(EnterSelect)
    /\ WF_vars(BackendWaitReturns)
    /\ WF_vars(TimerFires)
    /\ WF_vars(MainDone)
    /\ WF_vars(MainTimeout)
    /\ WF_vars(MainReturn)

CfgSpecInit == SessIdle /\ LisInit /\ MainIdle /\ CfgInit /\ OtherIdle

CfgSpec == CfgSpecInit /\ [][CfgNext]_vars

StanzaSpecInit ==
    SessIdle /\ LisInit /\ MainIdle /\ CfgIdle /\ StanzaInit /\ ProxyIdle

StanzaSpec == StanzaSpecInit /\ [][StanzaNext]_vars

ProxySpecInit ==
    SessIdle /\ LisInit /\ MainIdle /\ CfgIdle /\ StanzaIdle /\ ProxyInit

ProxySpec == ProxySpecInit /\ [][ProxyNext]_vars

\* The proxy's goroutine is scheduled and its calls return.  Nothing obliges
\* a client to connect, nor the garbage collector to run.
FairProxySpec ==
    /\ ProxySpec
    /\ WF_vars(TryLock)
    /\ WF_vars(RemoveAll)
    /\ WF_vars(Listen)
    /\ WF_vars(ListenAndAdvertise)
    /\ WF_vars(SecondLeg)

-----------------------------------------------------------------------------
(* Claims about the WebsocketSession *)

\* The frame the channelizer has read and no Recv has returned yet.
HeldData == IF chanPc = "send" /\ ~held.err THEN <<held.data>> ELSE <<>>

\* C1: under every interleaving of Recv calls, timeouts and arriving frames,
\* a Recv that times out consumes no frame, and the payloads the Recv calls
\* return are, in order, without loss or duplication, a prefix of the frames
\* read from the connection: every frame read is either delivered or still
\* offered by the channelizer, and the frames read are the first frames the
\* peer wrote, in the order it wrote them.
C1_InOrderDelivery ==
    /\ readLog = delivered \o HeldData
    /\ Len(readLog) <= wire
    /\ readLog = WireSeq(Len(readLog))

\* A Recv timed out while a frame was undelivered, and two frames were
\* delivered.
C1_Witness ==
    /\ timedOutPending
    /\ lastRecv = "data"
    /\ Len(delivered) >= 2

\* C2: Close is idempotent, and once Close has returned every later Send and
\* every later Recv returns the closed-session error: no later Recv returns a
\* data frame, and no later Recv returns Timeout.  Of the timeouts, only
\* those after the receive goroutine has ended are held against the claim:
\* a Recv that times out before the goroutine has noticed the close is left
\* aside.
C2_ClosedAfterClose ==
    /\ lastRecvPostClose => lastRecv # "data"
    /\ (lastRecvPostClose /\ chanPc = "done") => lastRecv = "error"
    /\ lastSendPostClose => lastSend = "error"
    /\ closeReturned => conn = "closed"

\* C7: after the session is closed or its connection has failed, the receive
\* goroutine eventually terminates, also when the owner calls Recv no more.
C7_ChannelizerTerminates == (conn # "open") ~> (chanPc = "done")

\* The session was made by a dialer: its close channel is set, or was until
\* the Once closed it.
DialerSession == nsCloseChan = "chan" \/ closeChanCloser

\* C16: whatever the number of Close calls, one after the other or
\* concurrent, a dialer's close channel is closed at most once, by the
\* caller that runs the Once, and it has been closed once any Close has
\* returned; a listener's session, whose close channel is nil, closes no
\* channel.
C16_CloseChanClosedOnce ==
    /\ closeChanCloses <= 1
    /\ (closeChanCloses = 1) <=> closeChanCloser
    /\ ~DialerSession => closeChanCloses = 0
    /\ (DialerSession /\ closeReturned) => closeChanCloses = 1

\* Two Close calls on a dialer's session have both returned.
C16_Witness ==
    /\ DialerSession
    /\ nCloseCalls = 2
    /\ \A c \in Closers : closePc[c] = "idle"
    /\ closeReturned
    /\ closeChanCloses = 1

-----------------------------------------------------------------------------
(* Claims about WebsocketListener.Start and the null backend *)

\* Everything Start made has ended: both goroutines and every handler.
ListenerQuiet ==
    /\ startPc = "started"
    /\ cancelPc = "done"
    /\ servePc = "returned"
    /\ \A i \in Requests : req[i] \in {"none", "done", "failed"}

\* C3: when the context given to Start is cancelled, the factory stops
\* accepting connections and the channel of sessions Start returned is
\* eventually closed, for the WebsocketListener and for the null backend.
\* Stated on the states in which nothing is left that could still close the
\* channel: the listener's goroutines and handlers have all ended, and the
\* null backend never starts any.
C3_ChannelClosedOnCancel ==
    /\ (ctxCancelled /\ cancelPc = "done") => li # "open"
    /\ (ctxCancelled /\ ListenerQuiet) => sessChanClosed
    /\ (ctxCancelled /\ nullStarted) => nullChanClosed

\* How often session i was received from the session channel.
Count(i) == Cardinality({k \in 1..Len(received) : received[k] = i})

\* C8: the listener emits exactly one session per accepted connection: no
\* session is sent twice, only a request whose upgrade succeeded has a
\* session sent, a request whose upgrade failed has none, and a handler
\* that has returned after a successful upgrade has sent exactly one.
C8_OneSessionPerConnection ==
    \A i \in Requests :
        /\ Count(i) <= 1
        /\ Count(i) = 1 => i \in upgraded
        /\ req[i] = "failed" => (Count(i) = 0 /\ i \notin upgraded)
        /\ req[i] = "done" => (Count(i) = 1 /\ i \in upgraded)
        /\ req[i] = "sending" => (Count(i) = 0 /\ i \in upgraded)

\* One request was upgraded and its session handed over, another failed to
\* upgrade.
C8_Witness ==
    /\ req[1] = "done"
    /\ req[2] = "failed"
    /\ received = <<1>>

C17_CancelClosesInitialisedServer ==
    /\ cancelPc # "panic"
    /\ cancelPc = "done" => server = "closed"
    /\ startPc = "started" =>
          wgCount = (IF servePc = "returned" THEN 0 ELSE 1)

-----------------------------------------------------------------------------
(* Claims about func main *)

\* C4: when backends are still running as the grace window elapses, the
\* process stays up past the window, and if all backends fail later (the
\* backend wait completes) the process eventually exits with code 1.  The
\* runs in which the node's context is cancelled instead are left aside.
C4_ExitsWhenBackendsFailLater ==
    /\ []((initComplete /\ ~netDone) => mainPc # "exited")
    /\ (initComplete /\ backendCount > 0 /\ waitPc = "closed")
          ~> ((mainPc = "exited" /\ exitCode = 1) \/ netDone)

\* C5: if the backend wait completes within the grace window, the process
\* never logs "Initialization complete" and exits with code 1: with the
\* all-backends-failed error when backends were configured, and with the
\* nothing-to-do warning when none was.
C5_ExitsInGrace ==
    doneInGrace =>
        /\ ~initComplete
        /\ mainPc \in {"select", "exited"} \/ (mainPc = "enter" /\ timer = "off")
        /\ timer = "fired" => selected = "done"
        /\ mainPc = "exited" =>
              /\ exitCode = 1
              /\ exitMsg = IF backendCount > 0 THEN "allfailed" ELSE "nothing"

\* The backend wait completed in the grace window, with backends and
\* without, and the process has exited.
C5_Witness ==
    /\ doneInGrace
    /\ mainPc = "exited"
    /\ exitMsg = "nothing"
    /\ backendCount = 0

\* C6: whenever NetceptorDone fires the process ends with exit code 0, at
\* whatever moment it fires, also in the grace window while backends are
\* configured; exit code 1 occurs only for a start-up error or when the
\* backend wait completed.
C6_CleanExitOnCancel ==
    /\ (mainPc = "exited" /\ cancelledWhileUp /\ exitMsg # "reload")
          => exitCode = 0
    /\ (mainPc = "exited" /\ exitCode = 1)
          => exitMsg \in {"startup", "reload", "allfailed", "nothing"}

\* main has passed the reload set-up of lines 125-148.
ReloadDecided ==
    /\ mainPc \notin {"parse", "reload"}
    /\ exitMsg \notin {"startup", "exclusive"}

\* Some --config or -c has an argument after it.
FlagFollowed(args) ==
    \E i \in 1..Len(args) : IsConfigFlag(args[i]) /\ i < Len(args)

\* The first --config or -c has a non-empty argument after it.
FirstFlagNamesPath(args) ==
    \E i \in 1..Len(args) :
        /\ IsConfigFlag(args[i])
        /\ \A j \in 1..(i - 1) : ~IsConfigFlag(args[j])
        /\ i < Len(args)
        /\ args[i + 1] # ""

\* A failure of InitReload ends the process with code 1 before the goroutine
\* that waits for the backends is started.
ReloadFailureExits ==
    reloadInit = "err" =>
        /\ mainPc = "exited"
        /\ exitCode = 1
        /\ waitPc = "none"

\* C15 as stated: reload is initialised if and only if the arguments contain
\* --config or -c followed by a further argument, and a failure to
\* initialise it exits with code 1 before any backend wait begins.
C15_ReloadIffFlagFollowed ==
    /\ ReloadDecided => (reloadInit # "none" <=> FlagFollowed(osArgs))
    /\ ReloadFailureExits

\* C15: reload is initialised if and only if the first --config or -c among
\* the arguments is followed by an argument that is not the empty string,
\* and a failure to initialise it exits with code 1 before any backend wait
\* begins.
C15_ReloadIffPathNamed ==
    /\ ~ReloadDecided => reloadInit = "none"
    /\ ReloadDecided => (reloadInit # "none" <=> FirstFlagNamesPath(osArgs))
    /\ ReloadFailureExits

\* InitReload failed for the arguments -c f, and the process has exited.
C15_Witness ==
    /\ osArgs = <<"-c", "f">>
    /\ reloadInit = "err"
    /\ mainPc = "exited"
    /\ exitCode = 1

-----------------------------------------------------------------------------
(* Claims about nodeCfg.Init *)

\* a and b are equal up to the case of their letters.
EqualFold(a, b) ==
    /\ Len(a) = Len(b)
    /\ \A i \in 1..Len(a) : a[i] = b[i] \/ a[i] = UpperOf(b[i]) \/ UpperOf(a[i]) = b[i]

\* C10: whenever the configured node ID equals "localhost" up to case, Init
\* returns an error and constructs no netceptor, workceptor or control
\* service.
C10_ReservedIdRejected ==
    (initPc # "ready" /\ EqualFold(cfgID, LocalHost)) =>
        /\ initErr = "reserved"
        /\ ~netceptorMade
        /\ ~workceptorMade
        /\ ~controlsvcMade

\* Init has rejected the node ID "LocalHost".
C10_Witness ==
    /\ initPc = "done"
    /\ cfgID = <<"L", "o", "c", "a", "l", "H", "o", "s", "t">>
    /\ initErr = "reserved"
    /\ ~netceptorMade

\* Init found no configured ID and os.Hostname returned a name.
HostNameUsed ==
    /\ initPc # "ready"
    /\ cfgID = <<>>
    /\ hostName.asked
    /\ ~hostName.err

\* The name is "localhost", or begins with "localhost.", up to case.
IsLocalhostName(n) ==
    \/ EqualFold(n, LocalHost)
    \/ Len(n) >= 10 /\ EqualFold(SubSeq(n, 1, 10), LocalHostDot)

\* The name begins with "localhost", up to case.
BeginsWithLocalhost(n) ==
    Len(n) >= 9 /\ EqualFold(SubSeq(n, 1, 9), LocalHost)

\* C11: when no node ID is configured and the host name is not a localhost
\* name, Init does not fail for lack of an ID: it constructs the node with
\* the host name, as os.Hostname returned it, as its ID.
C11_HostNameIsDefaultId ==
    (HostNameUsed /\ ~IsLocalhostName(hostName.name)) =>
        /\ initErr \in {"none", "workceptor", "register"}
        /\ netceptorMade
        /\ ncID = hostName.name

\* Init has built the node "Node" from the host name, with no ID configured.
C11_Witness ==
    /\ HostNameUsed
    /\ hostName.name = <<"N", "o", "d", "e">>
    /\ initErr = "none"
    /\ netceptorMade
    /\ ncID = <<"N", "o", "d", "e">>

\* C12 as stated: when no node ID is configured, for every host name whose
\* lower-cased form begins with "localhost", Init returns an error and
\* constructs no node.
C12_LocalhostPrefixRejected ==
    (HostNameUsed /\ BeginsWithLocalhost(hostName.name)) =>
        /\ initErr # "none"
        /\ ~netceptorMade

\* C12: when no node ID is configured, for every host name whose lower-cased
\* form is "localhost" or begins with "localhost.", Init returns the error
\* about the missing node ID and constructs no netceptor, workceptor or
\* control service.
C12_LocalhostNamesRejected ==
    (HostNameUsed /\ IsLocalhostName(hostName.name)) =>
        /\ initErr = "nohostid"
        /\ ~netceptorMade
        /\ ~workceptorMade
        /\ ~controlsvcMade

\* Init has rejected the host name "LocalHost.x" with no ID configured.
C12_Witness ==
    /\ HostNameUsed
    /\ hostName.name = <<"L", "o", "c", "a", "l", "H", "o", "s", "t", ".", "x">>
    /\ initErr = "nohostid"
    /\ ~netceptorMade

-----------------------------------------------------------------------------
(* Claims about the backend stanzas *)

Entries(log, phase) == {i \in DOMAIN log : log[i].phase = phase}

\* The address is one url.Parse accepts.
Parseable(address) == ~UrlParse(address).err

\* The header is empty or has a colon in it.
HeaderWellFormed(h) == h = <<>> \/ \E i \in 1..Len(h) : h[i] = ":"

\* C13: Prepare of a ws-listener returns an error if and only if Cost or
\* some per-node cost is not positive; Prepare of a ws-peer returns an error
\* if and only if Cost is not positive, or the address is not a parseable
\* URL, or the extra header is non-empty and has no colon.
C13_PrepareRejectsExactly ==
    \A i \in Entries(prepLog, "Prepare") :
        LET cfg == prepLog[i].cfg
            rejected == prepLog[i].err # "none"
        IN  /\ stKind = "ws-listener" =>
                  (rejected <=> (\/ cfg.cost <= 0
                                 \/ \E n \in DOMAIN cfg.nodeCost : cfg.nodeCost[n] <= 0))
            /\ stKind = "ws-peer" =>
                  (rejected <=> (\/ cfg.cost <= 0
                                 \/ ~Parseable(cfg.address)
                                 \/ ~HeaderWellFormed(cfg.header)))

\* Prepare has rejected a ws-listener whose only fault is the cost of node b.
C13_Witness ==
    /\ stKind = "ws-listener"
    /\ stPc = "failed"
    /\ stCfg.cost = 1
    /\ stCfg.nodeCost = [n \in {"a", "b"} |-> IF n = "a" THEN 2 ELSE 0]
    /\ prepLog = <<[phase |-> "Prepare", cfg |-> stCfg, err |-> "nodecost"]>>

\* C14: for a ws-listener and a ws-peer, PreReload accepts and rejects what
\* Prepare does; and Reload, of these and of a local-only stanza, makes the
\* call of AddBackend that Run makes, with the same costs, and returns the
\* error Run returns.
C14_ReloadRepeatsStartup ==
    /\ \A i \in Entries(prepLog, "PreReload") :
          prepLog[i].err = PrepareOf(stKind, prepLog[i].cfg)
    /\ \A i \in Entries(runLog, "Reload") :
          LET run == RunOf(stKind, runLog[i].cfg, runLog[i].env)
          IN  /\ runLog[i].err = run.err
              /\ runLog[i].call = run.call
              /\ (i = Len(runLog) /\ run.err = "none") =>
                    added[Len(added)] = run.call

\* A ws-listener with a per-node cost has been run and then reloaded from
\* the same configuration.
C14_Witness ==
    /\ stKind = "ws-listener"
    /\ stPc = "reloaded"
    /\ stCfg.nodeCost = [n \in {"a"} |-> 2]
    /\ Len(runLog) = 2
    /\ runLog[1].cfg = runLog[2].cfg
    /\ Len(added) = 2
    /\ added[1] = added[2]

\* C18: every dialer handed to the node by Prepare and Run, by PreReload and
\* Reload or by WSDial.setup has an extra header that is empty or has a
\* colon, so that the dial function finds both parts of its split.
C18_DialerHeaderSplits ==
    /\ \A i \in DOMAIN runLog :
          (runLog[i].call.made /\ runLog[i].call.kind = "dialer") =>
              HeaderWellFormed(runLog[i].call.header)
    /\ \A i \in DOMAIN added :
          added[i].kind = "dialer" => HeaderWellFormed(added[i].header)
    /\ ~dialPanic

\* A ws-peer reloaded with the header k:v:w has dialled.
C18_Witness ==
    /\ stKind = "ws-peer"
    /\ stPc = "reloaded"
    /\ Len(added) = 2
    /\ added[2].header = <<"k", ":", "v", ":", "w">>
    /\ 2 \in dialed
    /\ ~dialPanic

\* C19: whenever setup of a WSListen or a WSDial returns an error of one of
\* its validations (TLS configuration, construction of the backend, costs,
\* extra header), it has not called AddBackend and the node's backends are
\* as they were; it calls AddBackend when every validation has passed.
C19_SetupValidatesBeforeAdding ==
    \A i \in Entries(runLog, "setup") :
        /\ runLog[i].err \in {"tls", "create", "cost", "header"} =>
              /\ ~runLog[i].call.made
              /\ added = <<>>
        /\ runLog[i].err \in {"add", "none"} => runLog[i].call.made

\* setup of a WSDial with a well-formed header and a cost of 0 has returned
\* the cost error.
C19_Witness ==
    /\ stKind = "WSDial"
    /\ stPc = "failed"
    /\ stCfg.hdrSet
    /\ stCfg.header = <<"k", ":", "v">>
    /\ stCfg.cost = 0
    /\ Len(runLog) = 1
    /\ runLog[1].err = "cost"
    /\ added = <<>>

-----------------------------------------------------------------------------
(* Claims about the Unix-socket proxies *)

\* C20: a failure to lock, clear or listen on the socket ends the proxy with
\* nothing accepted, an accept error ends it, a failure to open the second
\* leg leaves the accept loop running, and every connection the proxy has
\* accepted is eventually bridged to a second leg or closed.
C20_AcceptedConnsSettled ==
    /\ [](pxEnd \in {"lock", "clear", "listen"} => pxConns = <<>>)
    /\ [](pxPc = "ended" => pxEnd \in {"lock", "clear", "listen", "accept"})
    /\ \A i \in 1..MaxConns :
          (Len(pxConns) >= i) ~>
              (Len(pxConns) >= i /\ pxConns[i] \in {"bridged", "closed"})

=============================================================================
